---- MODULE Spec2Model ----
(***************************************************************************)
(* Message-lifecycle engine of AWS-SQS-LITE: the messages table, the SQL   *)
(* statements of the Postgres store (enqueue, claim, ack, the two sweeper  *)
(* passes) and the processes that issue them.                              *)
(*                                                                         *)
(* A Claim is one READ COMMITTED statement: it takes its snapshot, then    *)
(* locks the candidate rows one at a time in id order (FOR UPDATE SKIP     *)
(* LOCKED re-evaluates the WHERE clause on the latest committed version of *)
(* a row that changed after the snapshot), then updates the locked rows    *)
(* and commits.  The other statements touch rows that no claim has locked  *)
(* and are atomic.                                                         *)
(*                                                                         *)
(* The store is driven either directly (Spec, SpecConc, LiveSpec: the way  *)
(* the integration tests call it) or through the HTTP handlers (SpecApi),  *)
(* which validate a request, call the store and write a response.          *)
(*                                                                         *)
(* Around the store run the Sweeper's ticker loop (SpecSweeper,            *)
(* LiveSweeper), main with its shutdown on a signal (SpecMain) and the     *)
(* polling loop of the Worker SDK (SpecWorker).  SpecStop lets the owner   *)
(* of the sweeper call Stop any number of times, SpecConfig loads the      *)
(* configuration from the environment, SpecBody sends JSON objects through *)
(* the jsonb column, and SpecPasses runs the two sweeper statements on     *)
(* every table of MaxId rows the store can hold.                           *)
(***************************************************************************)
EXTENDS Integers, FiniteSets, Sequences, TLC

\* ---------------------------------------------------------------- bounds
\* ids the BIGSERIAL sequence may hand out
MaxId == 2
\* number of times the database clock advances
MaxTicks == 2

\* Time is counted in fifths of a microsecond: a time.Duration is a whole
\* number of them, the database clock and every timestamp whole microseconds.
Microsecond == 5
Millisecond == 1000 * Microsecond
\* the clock is observed every other millisecond
Period == 2 * Millisecond
End == MaxTicks * Period

Consumers == {"c1", "c2"}
Queues == {"q", "d"}

\* ------------------------------------------------------- nullable columns
NULL == << >>
Some(v) == << v >>
Val(o) == o[1]

\* ---------------------------------------------------------------- bodies
\* a JSON text, as the sequence of its tokens: the string "b", the literal
\* null, and an object written with a space and with its keys out of order
PlainBody == << "\"b\"" >>
NullBody == << "null" >>
ObjectBody == << "{", "\"b\"", ":", " ", "1", ",", "\"a\"", ":", "2", "}" >>

\* the arguments of an Enqueue that decide a message's life
Kind(delay, maxRetries, dlq) == [delay |-> delay, max_retries |-> maxRetries, dlq |-> dlq]

\* inputs of the lifecycle specification: one consumer; messages without dlq
\* (one delayed), with a DLQ, and with their own queue as DLQ
\* (handleEnqueue and handleReceive pass durations of whole milliseconds)
LifeIn ==
    [consumers |-> {"c1"}, enqueueQueues |-> {"q"}, claimQueues |-> Queues,
     bodies |-> {PlainBody}, traces |-> {NULL},
     kinds |-> {Kind(0, 1, NULL), Kind(Millisecond, 2, NULL), Kind(0, 2, Some("d")),
                Kind(0, 1, Some("q"))},
     limits |-> {1, 2}, visibilities |-> {Millisecond, 2 * Millisecond}]

\* inputs of the fair specification: the lifecycle with fewer kinds of message
FairIn ==
    [consumers |-> {"c1"}, enqueueQueues |-> {"q"}, claimQueues |-> Queues,
     bodies |-> {PlainBody}, traces |-> {NULL},
     kinds |-> {Kind(0, 1, NULL), Kind(0, 2, Some("d"))},
     limits |-> {1, 2}, visibilities |-> {Millisecond}]

\* inputs of the concurrency specification: two consumers claiming at once
\* from one queue
ConcIn ==
    [consumers |-> Consumers, enqueueQueues |-> {"q"}, claimQueues |-> {"q"},
     bodies |-> {PlainBody}, traces |-> {NULL},
     kinds |-> {Kind(0, 1, NULL)},
     limits |-> {1, 2}, visibilities |-> {Millisecond}]

\* a path parameter that is no decimal number, as the sequence of its characters
BadId == << "x" >>

\* the JSON body of an enqueue request
EnqueueReq(body, delay, maxRetries, dlq, trace) ==
    [body |-> body, delay |-> delay, max_retries |-> maxRetries, dlq |-> dlq,
     trace_id |-> trace]

\* inputs of the HTTP specification: one client; requests with the fields
\* left out (0), out of range, and set
ApiIn ==
    [consumers |-> {"c1"}, paths |-> {"q"},
     enqueues |-> {EnqueueReq(PlainBody, 0, 0, NULL, NULL),
                   EnqueueReq(PlainBody, 1, 1, Some("d"), Some("t"))},
     maxes |-> {0 - 1, 0, 2, 33}, visibilities |-> {1},
     badIds |-> {BadId}]

\* inputs of the sweeper specifications: messages that an expired delivery
\* sends back to their queue, or to their DLQ
SweepIn ==
    [consumers |-> {"c1"}, enqueueQueues |-> {"q"}, claimQueues |-> {"q"},
     bodies |-> {PlainBody}, traces |-> {NULL},
     kinds |-> {Kind(0, 2, NULL), Kind(0, 1, Some("d"))},
     limits |-> {1}, visibilities |-> {Millisecond}]

\* inputs of the fair sweeper specification: the DLQ kind alone
FairSweepIn == [SweepIn EXCEPT !.kinds = {Kind(0, 1, Some("d"))}]

\* inputs of the worker specification: a producer of messages with two
\* deliveries and no DLQ; a worker configured with batch size 2 and a
\* visibility of one millisecond, polling queue q as client c1
WorkerIn ==
    [consumers |-> {"c1"}, paths |-> {"q"},
     enqueues |-> {EnqueueReq(PlainBody, 0, 2, NULL, NULL)},
     worker |-> "c1", queue |-> "q", batchSize |-> 2, visibilityMS |-> 1]

\* inputs of the body specification: a producer of objects bound for a DLQ
\* after one delivery, a consumer of both queues
BodyIn ==
    [consumers |-> {"c1"}, paths |-> {"q", "d"},
     enqueues |-> {EnqueueReq(ObjectBody, 0, 1, Some("d"), NULL)},
     maxes |-> {1}, visibilities |-> {1},
     badIds |-> {}]

\* environment variables that are read or documented, and values to set
\* them to: numbers of seconds, and a value that is no number
EnvNames == {"DATABASE_URL", "SWEEP_INTERVAL", "SWEEPER_INTERVAL"}
EnvValues == {<< "5" >>, << "7" >>, << "0" >>, << "x" >>}

\* inputs at the HTTP edge: enqueue requests with the body left out, with the
\* literal null as body, with a negative delay, and with the empty string as dlq
EdgeIn ==
    [consumers |-> {"c1"}, paths |-> {"q"},
     enqueues |-> {EnqueueReq(<< >>, 0, 1, NULL, NULL),
                   EnqueueReq(NullBody, 0, 1, NULL, NULL),
                   EnqueueReq(PlainBody, 0 - 1, 1, NULL, NULL),
                   EnqueueReq(PlainBody, 0, 1, Some(""), NULL)},
     maxes |-> {1}, visibilities |-> {1},
     badIds |-> {}]

\* ------------------------------------------------------ program constants
DefaultMaxRetries == 5
\* handleEnqueue's default and handleReceive's largest batch
DefaultMaxRetriesHTTP == 5
MaxReceive == 32
\* handleReceive's visibility when the request names none
DefaultVisibility == 30 * 1000 * Millisecond

VARIABLES
    messages,     \* the messages table: id -> row
    seq,          \* last value of the id sequence
    now,          \* the database clock
    tx,           \* per consumer: the Claim it is running
    swPc,         \* the sweeper's position inside PostgresStore.Sweeper
    claimCount,   \* history: id -> number of Claims that returned it
    leases,       \* history: id -> Claims that returned it since its lease was last cleared
    acked,        \* history: ids removed by a successful Ack
    born,         \* history: id -> the insert that made the row and its lineage
    http,         \* per handler: the last request it served and its response
    metrics,      \* the Prometheus counters of the metrics registry
    sweeper,      \* the Sweeper: its loop, its ticker and its stop channel
    proc,         \* the process: the signal context, the HTTP server, the pool
    worker,       \* the Worker SDK: its polling loop and the batch it handles
    config        \* the environment of the process and what LoadConfig made of it

vars == << messages, seq, now, tx, swPc, claimCount, leases, acked, born, http,
           metrics, sweeper, proc, worker, config >>

hist == << claimCount, leases, acked, born >>

\* what lies around the store: the HTTP exchanges and the processes
around == << http, sweeper, proc, worker, config >>

Ids == DOMAIN messages

Min(S) == CHOOSE x \in S : \A y \in S : x <= y

\* every ordering of a finite set, as sequences without repetition
Orderings(S) ==
    { s \in [1..Cardinality(S) -> S] : \A i, j \in 1..Cardinality(S) : i # j => s[i] # s[j] }

IdleTx ==
    [pc |-> "idle", queue |-> "q", limit |-> 0, vis |-> 0, start |-> 0,
     cand |-> {}, picked |-> {}, out |-> << >>]

\* the registry at start: every counter at zero (a labelled counter has a
\* value per label it was used with)
NoMetrics ==
    [enqueued |-> << >>, received |-> << >>, acked |-> 0, requeued |-> 0, dlqd |-> 0,
     sweeperErrors |-> 0]

\* sweeper.New: the stop channel open, Start not yet running, no tick in
\* the ticker's channel, no store sweep in flight, no error logged
NewSweeper ==
    [pc |-> "new", ticks |-> 0, stopCh |-> "open", sweeps |-> 0, failed |-> FALSE,
     totalProcessed |-> 0, count |-> 0]

\* main after start-up: signal context live, pool open, server listening
Started ==
    [ctx |-> "live", server |-> "listening", pool |-> "open", exited |-> FALSE,
     panicked |-> FALSE]

\* worker.New and Run: the polling loop of one queue at its select, nothing
\* received, no handler called yet
NewWorker == [pc |-> "poll", batch |-> << >>, outcome |-> "none"]

\* the environment before anything is set (a variable is absent or holds
\* the sequence of its characters), LoadConfig not yet called
NoConfig == [env |-> [name \in EnvNames |-> NULL], cfg |-> NULL]

\* no request served yet
NoExchange == [req |-> NULL, status |-> 0, body |-> NULL]

Init ==
    /\ messages = << >>
    /\ seq = 0
    /\ now = 0
    /\ tx = [c \in Consumers |-> IdleTx]
    /\ swPc = "requeue"
    /\ claimCount = << >>
    /\ leases = << >>
    /\ acked = {}
    /\ born = << >>
    /\ http = [enqueue |-> NoExchange, ack |-> NoExchange,
               receive |-> [c \in Consumers |-> NoExchange]]
    /\ metrics = NoMetrics
    /\ sweeper = NewSweeper
    /\ proc = Started
    /\ worker = NewWorker
    /\ config = NoConfig

\* rows a sweeper pass may still have to copy into a DLQ: each needs a fresh id
Reserved == Cardinality({id \in Ids : messages[id].dlq # NULL})

\* ------------------------------------------------------------- toInterval
toIntervalWholeSeconds(d) == (d \div (1000 * Millisecond)) * (1000 * Millisecond)

\* the duration the database reads from toInterval's literal: "%fs" prints
\* the seconds with six decimals, so the nearest whole microsecond
toInterval(d) ==
    IF d >= 0
    THEN ((d + Microsecond \div 2) \div Microsecond) * Microsecond
    ELSE 0 - (((0 - d) + Microsecond \div 2) \div Microsecond) * Microsecond

\* ------------------------------------------------------------------ jsonb
\* a JSON text without its insignificant whitespace
Compact(text) == SelectSeq(text, LAMBDA t : t # " ")

\* the members of a compact object of scalars: { k : v , k : v }
Members(text) ==
    [i \in 1..((Len(text) - 1) \div 4) |-> [key |-> text[4 * i - 2], value |-> text[4 * i]]]

\* jsonb's order of the keys in use (shorter first, then by bytes)
KeyOrder == << "\"a\"", "\"b\"" >>

RECURSIVE JsonbMembers(_, _)
JsonbMembers(keys, value) ==
    IF keys = << >> THEN << >>
    ELSE << Head(keys), ":", " ", value[Head(keys)] >>
         \o (IF Tail(keys) = << >> THEN << >> ELSE << ",", " " >>)
         \o JsonbMembers(Tail(keys), value)

\* what a jsonb column gives back for a text put into it: a scalar as it
\* is; an object with each key once (the last value wins), the keys in
\* jsonb's order, a space after each colon and comma
Jsonb(text) ==
    LET t == Compact(text)
    IN  IF Len(t) > 0 /\ t[1] = "{"
        THEN LET ms == Members(t)
                 keys == {ms[i].key : i \in 1..Len(ms)}
                 value == [k \in keys |->
                             ms[CHOOSE i \in 1..Len(ms) :
                                   /\ ms[i].key = k
                                   /\ \A j \in 1..Len(ms) : ms[j].key = k => j <= i].value]
             IN  << "{" >> \o JsonbMembers(SelectSeq(KeyOrder, LAMBDA k : k \in keys), value)
                 \o << "}" >>
        ELSE t

\* ---------------------------------------------------------------- Enqueue
\* PostgresStore.Enqueue: MaxRetries 0 becomes the default
StoredMaxRetries(n) == IF n = 0 THEN DefaultMaxRetries ELSE n

EnqueueRowNoDelay(id, q, body, interval, maxRetries, dlq, trace, t) ==
    [id |-> id, queue |-> q, body |-> Jsonb(body), enqueued_at |-> t,
     not_before |-> t, lease_until |-> NULL, delivery_count |-> 0,
     max_retries |-> maxRetries, dlq |-> dlq, trace_id |-> trace]

\* sqlEnqueue: the inserted row; enqueued_at, lease_until and delivery_count
\* take the column defaults of the schema
EnqueueRow(id, q, body, interval, maxRetries, dlq, trace, t) ==
    [id |-> id, queue |-> q, body |-> Jsonb(body), enqueued_at |-> t,
     not_before |-> t + interval, lease_until |-> NULL, delivery_count |-> 0,
     max_retries |-> maxRetries, dlq |-> dlq, trace_id |-> trace]

\* sqlEnqueue as a function of the table: the INSERT of the row numbered id
EnqueuePass(msgs, id, q, body, delay, maxRetries, dlq, trace, t) ==
    (id :> EnqueueRow(id, q, body, toInterval(delay), StoredMaxRetries(maxRetries),
                      dlq, trace, t))
    @@ msgs

Enqueue(q, body, delay, maxRetries, dlq, trace) ==
    LET id == seq + 1
        need == 1 + Reserved + (IF dlq # NULL THEN 1 ELSE 0)
    IN  /\ seq + need <= MaxId
        /\ seq' = id
        /\ messages' = EnqueuePass(messages, id, q, body, delay, maxRetries, dlq, trace, now)
        /\ claimCount' = (id :> 0) @@ claimCount
        /\ leases' = (id :> 0) @@ leases
        /\ born' = (id :> [root |-> id, queue |-> q, delay |-> delay, moves |-> 0,
                            body |-> body]) @@ born
        /\ UNCHANGED << now, tx, swPc, acked >>

\* ------------------------------------------------------------------ Claim
ClaimQualLazyExpiry(m, q, t) ==
    /\ m.queue = q
    /\ (m.lease_until = NULL \/ Val(m.lease_until) < t)
    /\ m.not_before <= t

\* the WHERE clause of sqlClaim's picked CTE, with now() = t
ClaimQual(m, q, t) ==
    /\ m.queue = q
    /\ m.lease_until = NULL
    /\ m.not_before <= t

\* a row lock taken by a Claim that has not yet committed
LockedBy(id) == {c \in Consumers : tx[c].pc = "pick" /\ id \in tx[c].picked}
Locked(id) == LockedBy(id) # {}

\* the statement starts: its snapshot fixes the candidate rows and now()
ClaimBeginLimitFirst(c, q, limit, vis) ==
    /\ tx[c].pc = "idle"
    /\ now + vis < End
    /\ LET qual == {id \in Ids : ClaimQual(messages[id], q, now)}
       IN tx' = [tx EXCEPT ![c] =
                   [pc |-> "pick", queue |-> q, limit |-> limit, vis |-> vis, start |-> now,
                    cand |-> {id \in qual : Cardinality({j \in qual : j < id}) < limit},
                    picked |-> {}, out |-> << >>]]
    /\ UNCHANGED << messages, seq, now, swPc, hist >>

ClaimBegin(c, q, limit, vis) ==
    /\ tx[c].pc = "idle"
    /\ now + vis < End
    /\ tx' = [tx EXCEPT ![c] =
                [pc |-> "pick", queue |-> q, limit |-> limit, vis |-> vis, start |-> now,
                 cand |-> {id \in Ids : ClaimQual(messages[id], q, now)},
                 picked |-> {}, out |-> << >>]]
    /\ UNCHANGED << messages, seq, now, swPc, hist >>

\* FOR UPDATE SKIP LOCKED on the next candidate in id order: a row that is
\* locked, deleted, or no longer passes the WHERE clause is passed over
ClaimTakesNoLock(c, id) ==
    id \in Ids

ClaimTakes(c, id) ==
    /\ id \in Ids
    /\ ~Locked(id)
    /\ ClaimQual(messages[id], tx[c].queue, tx[c].start)

ClaimLock(c) ==
    /\ tx[c].pc = "pick"
    /\ tx[c].cand # {}
    /\ Cardinality(tx[c].picked) < tx[c].limit
    /\ LET id == Min(tx[c].cand)
       IN tx' = [tx EXCEPT ![c].cand = @ \ {id},
                           ![c].picked = IF ClaimTakes(c, id) THEN @ \cup {id} ELSE @]
    /\ UNCHANGED << messages, seq, now, swPc, hist >>

ClaimUpdateNoCount(m, t, interval) ==
    [m EXCEPT !.lease_until = Some(t + interval)]

\* the UPDATE of sqlClaim applied to one picked row
ClaimUpdate(m, t, interval) ==
    [m EXCEPT !.lease_until = Some(t + interval), !.delivery_count = @ + 1]

\* LIMIT reached or candidates exhausted: update the picked rows, commit,
\* and hand the updated rows to the caller (RETURNING fixes no order), who
\* still knows the limit it asked for
ClaimCommit(c) ==
    /\ tx[c].pc = "pick"
    /\ \/ tx[c].cand = {}
       \/ Cardinality(tx[c].picked) = tx[c].limit
    /\ messages' = [id \in Ids |->
                      IF id \in tx[c].picked
                      THEN ClaimUpdate(messages[id], tx[c].start, toInterval(tx[c].vis))
                      ELSE messages[id]]
    /\ \E ord \in Orderings(tx[c].picked) :
          tx' = [tx EXCEPT ![c] =
                   [IdleTx EXCEPT !.pc = "respond", !.limit = tx[c].limit,
                                  !.out = [i \in 1..Len(ord) |-> messages'[ord[i]]]]]
    /\ claimCount' = [id \in Ids |-> claimCount[id] + (IF id \in tx[c].picked THEN 1 ELSE 0)]
    /\ leases' = [id \in Ids |-> leases[id] + (IF id \in tx[c].picked THEN 1 ELSE 0)]
    /\ UNCHANGED << seq, now, swPc, acked, born >>

\* handleReceive writes the response and the request ends
Respond(c) ==
    /\ tx[c].pc = "respond"
    /\ tx' = [tx EXCEPT ![c] = IdleTx]
    /\ UNCHANGED << messages, seq, now, swPc, hist >>

\* -------------------------------------------------------------------- Ack
AckKeepsRow(id) ==
    /\ ~Locked(id)
    /\ id \in Ids
    /\ messages' = [messages EXCEPT ![id].lease_until = NULL]
    /\ leases' = [leases EXCEPT ![id] = 0]
    /\ acked' = acked \cup {id}
    /\ UNCHANGED << seq, now, tx, swPc, claimCount, born >>

AckDeletesUnleased(id) == id \in Ids /\ messages[id].lease_until = NULL

\* sqlAck / PostgresStore.Ack: DELETE by id, true iff a row was removed.  The
\* DELETE waits for a row lock held by an uncommitted Claim.
AckDeletes(id) == id \in Ids

Ack(id) ==
    /\ ~Locked(id)
    /\ IF AckDeletes(id)
       THEN /\ messages' = [i \in Ids \ {id} |-> messages[i]]
            /\ claimCount' = [i \in Ids \ {id} |-> claimCount[i]]
            /\ leases' = [i \in Ids \ {id} |-> leases[i]]
            /\ born' = [i \in Ids \ {id} |-> born[i]]
            /\ acked' = acked \cup {id}
       ELSE UNCHANGED << messages, claimCount, leases, born, acked >>
    /\ UNCHANGED << seq, now, tx, swPc >>

\* ---------------------------------------------------------------- Sweeper
RequeueQualOffByOne(m, t) ==
    /\ m.lease_until # NULL
    /\ Val(m.lease_until) < t
    /\ (m.delivery_count <= m.max_retries \/ m.dlq = NULL)

RequeueQualCapOnly(m, t) ==
    /\ m.lease_until # NULL
    /\ Val(m.lease_until) < t
    /\ m.delivery_count < m.max_retries

RequeueQualAnyLease(m, t) ==
    /\ m.lease_until # NULL
    /\ (m.delivery_count < m.max_retries \/ m.dlq = NULL)

\* the WHERE clause of sqlSweeperRequeue's expired CTE, with now() = t
RequeueQual(m, t) ==
    /\ m.lease_until # NULL
    /\ Val(m.lease_until) < t
    /\ (m.delivery_count < m.max_retries \/ m.dlq = NULL)

DlqQualStrict(m, t) ==
    /\ m.lease_until # NULL
    /\ Val(m.lease_until) < t
    /\ m.delivery_count > m.max_retries
    /\ m.dlq # NULL

\* the WHERE clause of sqlSweeperDLQ's expired_for_dlq CTE, with now() = t
DlqQual(m, t) ==
    /\ m.lease_until # NULL
    /\ Val(m.lease_until) < t
    /\ m.delivery_count >= m.max_retries
    /\ m.dlq # NULL

\* rows a claim that has not committed holds locked: FOR UPDATE SKIP LOCKED
\* passes over them
LockedRows == {id \in Ids : Locked(id)}

\* the rows each statement selects in a table msgs at time t
RequeueRows(msgs, locked, t) ==
    {id \in DOMAIN msgs : RequeueQual(msgs[id], t) /\ id \notin locked}
DlqRows(msgs, locked, t) ==
    {id \in DOMAIN msgs : DlqQual(msgs[id], t) /\ id \notin locked}

RequeueSet == RequeueRows(messages, LockedRows, now)
DlqSet == DlqRows(messages, LockedRows, now)

RequeueUpdateReset(m) == [m EXCEPT !.lease_until = NULL, !.delivery_count = 0]

\* the UPDATE of sqlSweeperRequeue applied to one expired row
RequeueUpdate(m) == [m EXCEPT !.lease_until = NULL]

\* sqlSweeperRequeue as a function of the table
RequeuePass(msgs, locked, t) ==
    [id \in DOMAIN msgs |->
       IF id \in RequeueRows(msgs, locked, t) THEN RequeueUpdate(msgs[id]) ELSE msgs[id]]

\* first statement of PostgresStore.Sweeper
SweepRequeue ==
    /\ swPc = "requeue"
    /\ messages' = RequeuePass(messages, LockedRows, now)
    /\ leases' = [id \in Ids |-> IF id \in RequeueSet THEN 0 ELSE leases[id]]
    /\ metrics' = [metrics EXCEPT !.requeued = @ + Cardinality(RequeueSet)]
    /\ swPc' = "dlq"
    /\ UNCHANGED << seq, now, tx, claimCount, acked, born >>

DlqRowKeepsCount(m, id, t) ==
    [id |-> id, queue |-> Val(m.dlq), body |-> m.body, enqueued_at |-> m.enqueued_at,
     not_before |-> t, lease_until |-> NULL, delivery_count |-> m.delivery_count,
     max_retries |-> m.max_retries, dlq |-> NULL, trace_id |-> m.trace_id]

DlqRowKeepsDlq(m, id, t) ==
    [id |-> id, queue |-> Val(m.dlq), body |-> m.body, enqueued_at |-> m.enqueued_at,
     not_before |-> t, lease_until |-> NULL, delivery_count |-> 0,
     max_retries |-> m.max_retries, dlq |-> m.dlq, trace_id |-> m.trace_id]

\* the row sqlSweeperDLQ inserts for an expired row m; not_before, lease_until
\* and dlq are not in the column list and take the schema's defaults
DlqRow(m, id, t) ==
    [id |-> id, queue |-> Val(m.dlq), body |-> m.body, enqueued_at |-> m.enqueued_at,
     not_before |-> t, lease_until |-> NULL, delivery_count |-> 0,
     max_retries |-> m.max_retries, dlq |-> NULL, trace_id |-> m.trace_id]

DlqSourcesKeepIds(msgs, sq, locked, t) ==
    {[id \in DlqRows(msgs, locked, t) |-> id]}

\* the ways sqlSweeperDLQ can number its copies when the sequence stands at
\* sq: each fresh id with the row it copies, in an order SQL does not fix
DlqSources(msgs, sq, locked, t) ==
    LET moved == DlqRows(msgs, locked, t)
        fresh == (sq + 1)..(sq + Cardinality(moved))
    IN  {src \in [fresh -> moved] : \A i, j \in fresh : i # j => src[i] # src[j]}

DlqPassKeepsOriginal(msgs, src, t) ==
    LET fresh == DOMAIN src
    IN  [id \in DOMAIN msgs \cup fresh |->
           IF id \in fresh THEN DlqRow(msgs[src[id]], id, t) ELSE msgs[id]]

\* sqlSweeperDLQ as a function of the table, for one numbering src
DlqPass(msgs, src, t) ==
    LET fresh == DOMAIN src
        moved == {src[i] : i \in fresh}
    IN  [id \in (DOMAIN msgs \ moved) \cup fresh |->
           IF id \in fresh THEN DlqRow(msgs[src[id]], id, t) ELSE msgs[id]]

\* second statement of PostgresStore.Sweeper: insert the copies, delete the
\* originals
SweepDLQ ==
    /\ swPc = "dlq"
    /\ seq + Cardinality(DlqSet) <= 2 * MaxId
    /\ \E src \in DlqSources(messages, seq, LockedRows, now) :
          LET fresh == DOMAIN src
              kept == DOMAIN DlqPass(messages, src, now)
          IN  /\ messages' = DlqPass(messages, src, now)
              /\ born' = [id \in kept |->
                            IF id \in fresh
                            THEN [born[src[id]] EXCEPT !.delay = 0, !.moves = @ + 1]
                            ELSE born[id]]
              /\ claimCount' = [id \in kept |-> IF id \in fresh THEN 0 ELSE claimCount[id]]
              /\ leases' = [id \in kept |-> IF id \in fresh THEN 0 ELSE leases[id]]
    /\ seq' = seq + Cardinality(DlqSet)
    /\ metrics' = [metrics EXCEPT !.dlqd = @ + Cardinality(DlqSet)]
    /\ swPc' = "requeue"
    /\ UNCHANGED << now, tx, acked >>

\* ------------------------------------------------------------------ clock
Tick ==
    /\ now < End
    /\ now' = now + Period
    /\ UNCHANGED << messages, seq, tx, swPc, hist >>

\* ------------------------------------------------------------ the process
\* the database with its history, which the loop around the sweeper and main
\* leave alone
store == << messages, seq, now, tx, swPc, hist >>

\* Sweeper.Start up to its loop: the ticker is created
SweeperStart ==
    /\ sweeper.pc = "new"
    /\ sweeper' = [sweeper EXCEPT !.pc = "select"]
    /\ UNCHANGED << store, http, metrics, config, proc, worker >>

TickerSendQueued(n) == n + 1

\* time.NewTicker: the channel holds one tick, and a tick that finds it full
\* is dropped
TickerSend(n) == IF n = 0 THEN 1 ELSE n

\* the interval has passed once more while Start is running
TickerFire ==
    /\ sweeper.pc \in {"select", "sweep"}
    /\ sweeper' = [sweeper EXCEPT !.ticks = TickerSend(@)]
    /\ UNCHANGED << store, http, metrics, config, proc, worker >>

StopSeenNever(s) == FALSE

\* case <-s.stopCh: a closed channel is ready
StopSeen(s) == s.stopCh = "closed"

\* select picks any one of its ready cases.  case <-ctx.Done()
SweeperSelectDone ==
    /\ sweeper.pc = "select"
    /\ proc.ctx = "cancelled"
    /\ sweeper' = [sweeper EXCEPT !.pc = "returned"]
    /\ UNCHANGED << store, http, metrics, config, proc, worker >>

SweeperSelectStop ==
    /\ sweeper.pc = "select"
    /\ StopSeen(sweeper)
    /\ sweeper' = [sweeper EXCEPT !.pc = "returned"]
    /\ UNCHANGED << store, http, metrics, config, proc, worker >>

SweeperCallAsync(s) == [s EXCEPT !.ticks = @ - 1, !.sweeps = @ + 1]

\* case <-ticker.C: the loop takes the tick and calls store.Sweeper itself
SweeperCall(s) == [s EXCEPT !.pc = "sweep", !.ticks = @ - 1, !.sweeps = @ + 1]

SweeperSelectTick ==
    /\ sweeper.pc = "select"
    /\ sweeper.ticks > 0
    /\ sweeper' = SweeperCall(sweeper)
    /\ UNCHANGED << store, http, metrics, config, proc, worker >>

\* pool.Exec runs its statement only with a live context and an open pool
ExecRuns == proc.ctx = "live" /\ proc.pool = "open"

\* store.Sweeper has returned count and err: Start logs an error and goes
\* round the loop
SweeperReturns(s, count, failed) ==
    [s EXCEPT !.pc = "select", !.sweeps = @ - 1, !.failed = failed,
              !.totalProcessed = 0, !.count = count]

\* PostgresStore.Sweeper called by the loop: the first Exec
SweeperRequeuePass ==
    /\ sweeper.pc = "sweep"
    /\ ExecRuns
    /\ SweepRequeue
    /\ sweeper' = [sweeper EXCEPT !.totalProcessed = Cardinality(RequeueSet)]
    /\ UNCHANGED << http, proc, worker, config >>

\* the second Exec, and the return of the count
SweeperDlqPass ==
    /\ sweeper.pc = "sweep"
    /\ ExecRuns
    /\ SweepDLQ
    /\ sweeper' = SweeperReturns(sweeper, sweeper.totalProcessed + Cardinality(DlqSet), FALSE)
    /\ UNCHANGED << http, proc, worker, config >>

\* either Exec fails (context cancelled, pool closed, or the database is
\* out of reach): Sweeper returns 0 and the error, Start logs it
SweeperFails ==
    /\ sweeper.pc = "sweep"
    /\ swPc' = "requeue"
    /\ sweeper' = SweeperReturns(sweeper, 0, TRUE)
    /\ UNCHANGED << messages, seq, now, tx, hist, http, metrics, config, proc, worker >>

\* Sweeper.Stop: close(s.stopCh), and the close of a closed channel panics
Stop ==
    /\ IF sweeper.stopCh = "open"
       THEN sweeper' = [sweeper EXCEPT !.stopCh = "closed"] /\ UNCHANGED proc
       ELSE proc' = [proc EXCEPT !.panicked = TRUE] /\ UNCHANGED sweeper
    /\ UNCHANGED << store, http, metrics, config, worker >>

\* SIGINT or SIGTERM: signal.NotifyContext cancels the context main handed
\* to the sweeper
Signal ==
    /\ proc.ctx = "live"
    /\ proc' = [proc EXCEPT !.ctx = "cancelled"]
    /\ UNCHANGED << store, http, metrics, config, sweeper, worker >>

\* main past <-ctx.Done(): httpSrv.Shutdown closes the listener ...
MainShutdown ==
    /\ proc.server = "listening"
    /\ proc.ctx = "cancelled"
    /\ proc' = [proc EXCEPT !.server = "draining"]
    /\ UNCHANGED << store, http, metrics, config, sweeper, worker >>

\* ... and returns once no request is being served
MainShutdownReturns ==
    /\ proc.server = "draining"
    /\ \A c \in Consumers : tx[c].pc = "idle"
    /\ proc' = [proc EXCEPT !.server = "closed"]
    /\ UNCHANGED << store, http, metrics, config, sweeper, worker >>

\* main returns: the deferred pool.Close() runs (no statement is in flight:
\* statements are atomic here)
MainClosesPool ==
    /\ proc.server = "closed"
    /\ proc.pool = "open"
    /\ proc' = [proc EXCEPT !.pool = "closed"]
    /\ UNCHANGED << store, http, metrics, config, sweeper, worker >>

\* the process ends, and every goroutine with it
MainExits ==
    /\ proc.pool = "closed"
    /\ ~proc.exited
    /\ proc' = [proc EXCEPT !.exited = TRUE]
    /\ UNCHANGED << store, http, metrics, config, sweeper, worker >>

\* ---------------------------------------------------------- HTTP handlers
\* strconv.FormatInt(n, 10) and strconv.ParseInt(s, 10, 64) on sequences of
\* characters (ids stay far below 2^63)
Digits == << "0", "1", "2", "3", "4", "5", "6", "7", "8", "9" >>

IsDigit(ch) == \E d \in 1..10 : Digits[d] = ch
DigitOf(ch) == (CHOOSE d \in 1..10 : Digits[d] = ch) - 1

RECURSIVE FormatNat(_)
FormatNat(n) ==
    IF n < 10 THEN << Digits[n + 1] >>
    ELSE FormatNat(n \div 10) \o << Digits[(n % 10) + 1] >>

FormatInt(n) == IF n < 0 THEN << "-" >> \o FormatNat(0 - n) ELSE FormatNat(n)

RECURSIVE ParseNat(_)
ParseNat(s) ==
    IF Len(s) = 1 THEN DigitOf(s[1])
    ELSE 10 * ParseNat(SubSeq(s, 1, Len(s) - 1)) + DigitOf(s[Len(s)])

ParseInt(s) ==
    LET signed == Len(s) > 0 /\ s[1] \in {"+", "-"}
        digits == IF signed THEN Tail(s) ELSE s
    IN  IF Len(digits) = 0 \/ \E i \in 1..Len(digits) : ~IsDigit(digits[i])
        THEN NULL
        ELSE Some(IF signed /\ s[1] = "-" THEN 0 - ParseNat(digits) ELSE ParseNat(digits))

\* httpError and writeJSON
HttpError(req, code) == [req |-> req, status |-> code, body |-> Some([error |-> TRUE])]
WriteJSON(req, code, v) == [req |-> req, status |-> code, body |-> Some(v)]

EnqueueMaxRetriesOne(n) == IF n <= 0 THEN 1 ELSE n

\* handleEnqueue: max_retries of the request, left out (0) or negative, becomes 5
EnqueueMaxRetries(n) == IF n <= 0 THEN DefaultMaxRetriesHTTP ELSE n

BodyMissingEmptyOnly(body) == body = << >>

\* handleEnqueue: the raw JSON of the body field is empty (the field was left
\* out) or is the literal null
BodyMissing(body) == Len(body) = 0 \/ body = NullBody

\* handleEnqueue for POST /v1/queues/{qname}/messages with a decoded body
handleEnqueue(qname, req) ==
    LET asked == Some([queue |-> qname, json |-> req])
    IN  IF qname = "" \/ BodyMissing(req.body)
        THEN /\ http' = [http EXCEPT !.enqueue = HttpError(asked, 400)]
             /\ UNCHANGED << messages, seq, now, tx, swPc, hist >>
        ELSE /\ Enqueue(qname, req.body, req.delay * Millisecond,
                        EnqueueMaxRetries(req.max_retries), req.dlq, req.trace_id)
             /\ http' = [http EXCEPT !.enqueue = WriteJSON(asked, 201, [id |-> seq'])]

ReceiveLimitUnclamped(max) == IF max <= 0 THEN 1 ELSE max

\* handleReceive: the limit and the visibility handed to the store
ReceiveLimit(max) == IF max <= 0 \/ max > MaxReceive THEN 1 ELSE max

ReceiveVisibility(visMS) ==
    IF visMS * Millisecond <= 0 THEN DefaultVisibility ELSE visMS * Millisecond

\* one message of handleReceive's response, as writeJSON encodes it: a
\* RawMessage is written compacted; the receipt is the id in decimal
ReceivedMessage(m) ==
    [id |-> m.id, body |-> Compact(m.body), receipt |-> FormatInt(m.id),
     lease_until |-> m.lease_until, delivery_count |-> m.delivery_count,
     max_retries |-> m.max_retries, dlq |-> m.dlq, trace_id |-> m.trace_id]

\* handleReceive for POST /v1/queues/{qname}:receive, up to the store's Claim
handleReceive(c, qname, max, visMS) ==
    LET asked == Some([queue |-> qname, max |-> max, visibility_ms |-> visMS])
    IN  /\ tx[c].pc = "idle"
        /\ IF qname = ""
           THEN /\ http' = [http EXCEPT !.receive[c] = HttpError(asked, 400)]
                /\ UNCHANGED << messages, seq, now, tx, swPc, hist >>
           ELSE /\ ClaimBegin(c, qname, ReceiveLimit(max), ReceiveVisibility(visMS))
                /\ http' = [http EXCEPT !.receive[c] = [req |-> asked, status |-> 0,
                                                        body |-> NULL]]

\* handleReceive, once Claim has returned: the response
handleReceiveRespond(c) ==
    /\ Respond(c)
    /\ http' = [http EXCEPT !.receive[c] =
                  WriteJSON(@.req, 200,
                            [i \in 1..Len(tx[c].out) |-> ReceivedMessage(tx[c].out[i])])]

AckStatusAlwaysOk(ok) == 200

\* handleAck: the status for the store's answer
AckStatus(ok) == IF ok THEN 200 ELSE 404

\* handleAck for POST /v1/messages/{idStr}:ack
handleAck(idStr) ==
    LET asked == Some(idStr)
        id == ParseInt(idStr)
    IN  IF idStr = << >> \/ id = NULL
        THEN /\ http' = [http EXCEPT !.ack = HttpError(asked, 400)]
             /\ UNCHANGED << messages, seq, now, tx, swPc, hist >>
        ELSE /\ Ack(Val(id))
             /\ http' = [http EXCEPT !.ack =
                           IF AckDeletes(Val(id))
                           THEN WriteJSON(asked, AckStatus(TRUE), [ok |-> TRUE])
                           ELSE HttpError(asked, AckStatus(FALSE))]

\* ----------------------------------------------------------------- config
Second == 1000 * Millisecond

\* os.LookupEnv
LookupEnv(env, name) == IF name \in DOMAIN env THEN env[name] ELSE NULL

\* getEnvAsDuration: a variable that is set to a decimal number gives that
\* many seconds; one that is absent or no number gives the default
getEnvAsDuration(env, name, defaultVal) ==
    LET value == LookupEnv(env, name)
    IN  IF value # NULL /\ ParseInt(Val(value)) # NULL
        THEN Val(ParseInt(Val(value))) * Second
        ELSE defaultVal

\* getEnv
getEnv(env, name, defaultVal) ==
    LET value == LookupEnv(env, name)
    IN  IF value # NULL THEN Val(value) ELSE defaultVal

\* the variable LoadConfig reads the sweeper period from
SweepIntervalName == "SWEEP_INTERVAL"

\* LoadConfig: the fields read from the environment (PORT, RECEIVE_MAX and
\* LOG_LEVEL are left at their defaults here), or its error
LoadedConfig(env) ==
    LET cfg == [DatabaseURL |-> getEnv(env, "DATABASE_URL", << >>),
                VisibilityTimeout |-> getEnvAsDuration(env, "VISIBILITY_TIMEOUT", 30 * Second),
                SweepInterval |-> getEnvAsDuration(env, SweepIntervalName, 60 * Second),
                DBConnectionTimeout |-> getEnvAsDuration(env, "DB_CONNECTION_TIMEOUT",
                                                         5 * Second)]
    IN  IF cfg.DatabaseURL = << >> THEN [error |-> TRUE] ELSE [error |-> FALSE, cfg |-> cfg]

\* the process is started with a variable set
Setenv(name, value) ==
    /\ config.cfg = NULL
    /\ config' = [config EXCEPT !.env[name] = Some(value)]
    /\ UNCHANGED << store, http, metrics, sweeper, proc, worker >>

\* main calls LoadConfig
LoadConfig ==
    /\ config.cfg = NULL
    /\ config' = [config EXCEPT !.cfg = Some(LoadedConfig(config.env))]
    /\ UNCHANGED << store, http, metrics, sweeper, proc, worker >>

\* ------------------------------------------------------------- Worker SDK
\* what a handler call can end in
Outcomes == {"nil", "error", "panic"}

\* the Message the worker decodes from one element of the response; pollQueue
\* sets its Queue
WorkerMessage(r, queue) ==
    [id |-> r.id, body |-> r.body, receipt |-> r.receipt, lease_until |-> r.lease_until,
     delivery_count |-> r.delivery_count, max_retries |-> r.max_retries, queue |-> queue]

\* the loop after a message: the next message of the batch, or the select
WorkerNext(batch) == IF batch = << >> THEN "poll" ELSE "handle"

\* pollQueue, case <-ticker.C: receiveMessages posts the receive request
WorkerPoll(c, queue, batchSize, visMS) ==
    /\ worker.pc = "poll"
    /\ handleReceive(c, queue, batchSize, visMS)
    /\ worker' = [worker EXCEPT !.pc = "receive"]

\* receiveMessages returns the decoded response; an empty batch goes back
\* to the select
WorkerReceives(c, queue) ==
    /\ worker.pc = "receive"
    /\ handleReceiveRespond(c)
    /\ LET got == Val(http'.receive[c].body)
           batch == [i \in 1..Len(got) |-> WorkerMessage(got[i], queue)]
       IN  worker' = [worker EXCEPT !.pc = WorkerNext(batch), !.batch = batch]

AcksAfterUnlessPanic(outcome) == outcome # "panic"

\* processMessage: the ack is sent when the handler returned nil; an error
\* returns before it, and a panic unwinds into the deferred recover
AcksAfter(outcome) == outcome = "nil"

\* processMessage up to the handler's end, for the first message of the batch
WorkerHandler(outcome) ==
    /\ worker.pc = "handle"
    /\ worker' = IF AcksAfter(outcome)
                 THEN [worker EXCEPT !.pc = "ack", !.outcome = outcome]
                 ELSE [worker EXCEPT !.pc = WorkerNext(Tail(worker.batch)),
                                     !.batch = Tail(@), !.outcome = outcome]
    /\ UNCHANGED << store, http, metrics, config, sweeper, proc >>

\* ackMessage: POST /v1/messages/<id>:ack with the id printed by %d; an
\* answer other than 200 is logged, and the loop goes on
WorkerAck ==
    /\ worker.pc = "ack"
    /\ handleAck(FormatInt(Head(worker.batch).id))
    /\ worker' = [worker EXCEPT !.pc = WorkerNext(Tail(worker.batch)), !.batch = Tail(@)]

\* ------------------------------------------------------------------- Next
\* the store driven directly
Step(in) ==
    \/ \E q \in in.enqueueQueues, b \in in.bodies, k \in in.kinds, t \in in.traces :
          Enqueue(q, b, k.delay, k.max_retries, k.dlq, t) /\ UNCHANGED << around, metrics >>
    \/ \E c \in in.consumers, q \in in.claimQueues, l \in in.limits, v \in in.visibilities :
          ClaimBegin(c, q, l, v) /\ UNCHANGED << around, metrics >>
    \/ \E c \in in.consumers : ClaimLock(c) /\ UNCHANGED << around, metrics >>
    \/ \E c \in in.consumers : ClaimCommit(c) /\ UNCHANGED << around, metrics >>
    \/ \E c \in in.consumers : Respond(c) /\ UNCHANGED << around, metrics >>
    \/ \E id \in 1..MaxId : Ack(id) /\ UNCHANGED << around, metrics >>
    \/ SweepRequeue /\ UNCHANGED around
    \/ SweepDLQ /\ UNCHANGED around
    \/ Tick /\ UNCHANGED << around, metrics >>

Next == Step(LifeIn)
Spec == Init /\ [][Next]_vars

NextConc == Step(ConcIn)
SpecConc == Init /\ [][NextConc]_vars

\* the store driven through the HTTP handlers; acks name any id the sequence
\* may have handed out, or no id at all
ApiStep(in) ==
    \/ \E q \in in.paths, r \in in.enqueues :
          handleEnqueue(q, r) /\ UNCHANGED << metrics, config, sweeper, proc, worker >>
    \/ \E c \in in.consumers, q \in in.paths, m \in in.maxes, v \in in.visibilities :
          handleReceive(c, q, m, v) /\ UNCHANGED << metrics, config, sweeper, proc, worker >>
    \/ \E c \in in.consumers : ClaimLock(c) /\ UNCHANGED << around, metrics >>
    \/ \E c \in in.consumers : ClaimCommit(c) /\ UNCHANGED << around, metrics >>
    \/ \E c \in in.consumers :
          handleReceiveRespond(c) /\ UNCHANGED << metrics, config, sweeper, proc, worker >>
    \/ \E s \in {FormatInt(id) : id \in 1..MaxId} \cup in.badIds :
          handleAck(s) /\ UNCHANGED << metrics, config, sweeper, proc, worker >>
    \/ SweepRequeue /\ UNCHANGED around
    \/ SweepDLQ /\ UNCHANGED around
    \/ Tick /\ UNCHANGED << around, metrics >>

NextApi == ApiStep(ApiIn)
SpecApi == Init /\ [][NextApi]_vars

\* a process started under some environment loads its configuration
\* the two statements of the sweep on tables the store can hold.  A row of
\* kind k that was claimed n times: each claim but the last was reclaimed
\* one period after it, and the last lease may have been reclaimed too
PassKinds == {Kind(0, 1, NULL), Kind(0, 1, Some("d")), Kind(0, 2, Some("d"))}

RECURSIVE ClaimedRow(_, _)
ClaimedRow(m, n) ==
    IF n = 0 THEN m
    ELSE ClaimUpdate(RequeueUpdate(ClaimedRow(m, n - 1)), (n - 1) * Period,
                     toInterval(Millisecond))

\* the first n leases of the row were reclaimed, each one period after its claim
Reclaimable(m, n) == \A i \in 1..n : RequeueQual(ClaimedRow(m, i), i * Period)

\* the rows with id that the table can hold at time t
PassRows(id, t) ==
    LET fresh(k) == EnqueueRow(id, "q", PlainBody, toInterval(k.delay),
                               StoredMaxRetries(k.max_retries), k.dlq, NULL, 0)
    IN  UNION {
          {ClaimedRow(fresh(k), n) :
              n \in {n \in 0..MaxTicks :
                        (n - 1) * Period <= t /\ Reclaimable(fresh(k), n - 1)}}
          \cup
          {RequeueUpdate(ClaimedRow(fresh(k), n)) :
              n \in {n \in 1..MaxTicks : n * Period <= t /\ Reclaimable(fresh(k), n)}}
          : k \in PassKinds}

InitPasses ==
    /\ now \in {n * Period : n \in 1..MaxTicks}
    /\ messages \in {table \in [1..MaxId -> UNION {PassRows(id, now) : id \in 1..MaxId}] :
                        \A id \in 1..MaxId : table[id] \in PassRows(id, now)}
    /\ seq = MaxId
    /\ tx = [c \in Consumers |-> IdleTx]
    /\ swPc \in {"requeue", "dlq"}
    /\ claimCount = [id \in 1..MaxId |-> messages[id].delivery_count]
    /\ leases = [id \in 1..MaxId |-> IF messages[id].lease_until = NULL THEN 0 ELSE 1]
    /\ acked = {}
    /\ born = [id \in 1..MaxId |->
                 [root |-> id, queue |-> "q", delay |-> 0, moves |-> 0, body |-> PlainBody]]
    /\ http = [enqueue |-> NoExchange, ack |-> NoExchange,
               receive |-> [c \in Consumers |-> NoExchange]]
    /\ metrics = NoMetrics
    /\ sweeper = NewSweeper
    /\ proc = Started
    /\ worker = NewWorker
    /\ config = NoConfig

NextPasses ==
    \/ SweepRequeue /\ UNCHANGED around
    \/ SweepDLQ /\ UNCHANGED around
    \/ Tick /\ UNCHANGED << around, metrics >>

SpecPasses == InitPasses /\ [][NextPasses]_vars

NextConfig ==
    \/ \E name \in EnvNames, value \in EnvValues : Setenv(name, value)
    \/ LoadConfig

SpecConfig == Init /\ [][NextConfig]_vars

\* the handlers given bodies that jsonb rewrites
NextBody == ApiStep(BodyIn)
SpecBody == Init /\ [][NextBody]_vars

\* the handlers given requests a careless producer may send
NextEdge == ApiStep(EdgeIn)
SpecEdge == Init /\ [][NextEdge]_vars

\* the Sweeper's loop around the store's sweep, with producers and consumers
\* at work while the server listens; the context may be cancelled and Stop
\* called at any moment
SweeperStep(in) ==
    \/ \E q \in in.enqueueQueues, b \in in.bodies, k \in in.kinds, t \in in.traces :
          /\ proc.server = "listening"
          /\ Enqueue(q, b, k.delay, k.max_retries, k.dlq, t) /\ UNCHANGED << around, metrics >>
    \/ \E c \in in.consumers, q \in in.claimQueues, l \in in.limits, v \in in.visibilities :
          /\ proc.server = "listening"
          /\ ClaimBegin(c, q, l, v) /\ UNCHANGED << around, metrics >>
    \/ \E c \in in.consumers : ClaimLock(c) /\ UNCHANGED << around, metrics >>
    \/ \E c \in in.consumers : ClaimCommit(c) /\ UNCHANGED << around, metrics >>
    \/ \E c \in in.consumers : Respond(c) /\ UNCHANGED << around, metrics >>
    \/ Tick /\ UNCHANGED << around, metrics >>
    \/ SweeperStart
    \/ TickerFire
    \/ SweeperSelectDone
    \/ SweeperSelectStop
    \/ SweeperSelectTick
    \/ SweeperRequeuePass
    \/ SweeperDlqPass
    \/ SweeperFails
    \/ sweeper.stopCh = "open" /\ Stop
    \/ Signal

NextSweeper == SweeperStep(SweepIn)
SpecSweeper == Init /\ [][NextSweeper]_vars

\* select takes one of its ready cases at random, so a case that is ready
\* again and again is taken in the end; a started goroutine runs, and a
\* store sweep in flight returns
NextFairSweeper == SweeperStep(FairSweepIn)
LiveSweeper ==
    /\ Init /\ [][NextFairSweeper]_vars
    /\ WF_vars(SweeperStart)
    /\ WF_vars(SweeperRequeuePass \/ SweeperDlqPass \/ SweeperFails)
    /\ SF_vars(SweeperSelectDone)
    /\ SF_vars(SweeperSelectStop)

\* the owner of the sweeper calls Stop whenever it likes, as often as it
\* likes; a panic ends the process
NextStop ==
    \/ ~proc.panicked /\ SweeperStep(FairSweepIn)
    \/ ~proc.panicked /\ Stop

SpecStop == Init /\ [][NextStop]_vars

\* main of the README: the same, and on a signal main shuts the server down,
\* closes the pool and the process ends
NextMain ==
    \/ ~proc.exited /\ SweeperStep(SweepIn)
    \/ MainShutdown
    \/ MainShutdownReturns
    \/ MainClosesPool
    \/ MainExits

SpecMain == Init /\ [][NextMain]_vars

\* one worker polling one queue through the HTTP handlers, a producer, the
\* sweeper and the clock; the worker's context stays live
WorkerStep(in) ==
    \/ \E q \in in.paths, r \in in.enqueues :
          handleEnqueue(q, r) /\ UNCHANGED << metrics, config, sweeper, proc, worker >>
    \/ WorkerPoll(in.worker, in.queue, in.batchSize, in.visibilityMS)
          /\ UNCHANGED << metrics, config, sweeper, proc >>
    \/ ClaimLock(in.worker) /\ UNCHANGED << around, metrics >>
    \/ ClaimCommit(in.worker) /\ UNCHANGED << around, metrics >>
    \/ WorkerReceives(in.worker, in.queue) /\ UNCHANGED << metrics, config, sweeper, proc >>
    \/ \E o \in Outcomes : WorkerHandler(o)
    \/ WorkerAck /\ UNCHANGED << metrics, config, sweeper, proc >>
    \/ SweepRequeue /\ UNCHANGED around
    \/ SweepDLQ /\ UNCHANGED around
    \/ Tick /\ UNCHANGED << around, metrics >>

NextWorker == WorkerStep(WorkerIn)
SpecWorker == Init /\ [][NextWorker]_vars

\* two Claims that overlap, and nothing else while they run: Enqueue, Ack, the
\* sweeper and the clock move only while no Claim is running; a Claim does
\* not start once the other has its result, and a caller lets go of its
\* result once the other has its result too
Quiet == \A c \in Consumers : tx[c].pc = "idle"

PairDiscipline ==
    /\ tx' = tx => Quiet
    /\ \A c \in Consumers :
          /\ (tx[c].pc = "idle" /\ tx'[c].pc = "pick") =>
                \A d \in Consumers \ {c} : tx[d].pc # "respond"
          /\ (tx[c].pc = "respond" /\ tx'[c].pc = "idle") =>
                \A d \in Consumers \ {c} : tx[d].pc # "pick"

NextPair == Step(ConcIn) /\ PairDiscipline
SpecPair == Init /\ [][NextPair]_vars

\* the clock advances and the sweeper's ticker keeps firing: every tick runs
\* both passes of PostgresStore.Sweeper
NextFair == Step(FairIn)
LiveSpec ==
    /\ Init /\ [][NextFair]_vars
    /\ WF_vars(Tick /\ UNCHANGED << around, metrics >>)
    /\ WF_vars(SweepRequeue /\ UNCHANGED around)
    /\ WF_vars(SweepDLQ /\ UNCHANGED around)

\* ================================================================ claims
\* steps of the processes, recognised by what they change
CommitStep(c) == tx[c].pc = "pick" /\ tx'[c].pc = "respond"
BeginStep(c) == tx[c].pc = "idle" /\ tx'[c].pc = "pick"
RequeueStep == swPc = "requeue" /\ swPc' = "dlq"
DlqStep == swPc = "dlq" /\ swPc' = "requeue"

\* the lease of row m ended before instant t
Expired(m, t) == m.lease_until # NULL /\ Val(m.lease_until) < t

\* rows of table msgs descending from Enqueue `root` that sit in queue q
CopiesIn(msgs, brn, root, q) ==
    {id \in DOMAIN msgs : brn[id].root = root /\ msgs[id].queue = q}

\* C1: no double claim.  Between two clearings of its lease by a sweep, a
\* message id is returned by at most one Claim, and no two uncommitted Claims
\* hold the row lock of the same id.
C1_NoDoubleClaim ==
    \A id \in Ids : leases[id] <= 1 /\ Cardinality(LockedBy(id)) <= 1

\* a message claimed, reclaimed and claimed again while another consumer's
\* Claim on its queue is running
C1_Witness ==
    \E id \in Ids, c \in Consumers :
        /\ leases[id] = 1 /\ claimCount[id] = 2
        /\ tx[c].pc = "pick" /\ tx[c].queue = messages[id].queue
        /\ id \notin tx[c].picked

\* C2 as stated: once a message with dlq = D and max_retries = k has been
\* claimed k times and a DLQ pass runs after its k-th lease expired, it is
\* exactly once in queue D and not in its original queue, for any D.
C2_DlqExactlyOnce(sameNameToo) ==
    /\ DlqStep =>
         \A id \in Ids :
            LET m == messages[id]
            IN (m.dlq # NULL /\ Expired(m, now) /\ claimCount[id] >= m.max_retries) =>
                 /\ Cardinality(CopiesIn(messages', born', born[id].root, Val(m.dlq))) = 1
                 /\ (sameNameToo \/ Val(m.dlq) # born[id].queue) =>
                       CopiesIn(messages', born', born[id].root, born[id].queue) = {}
    /\ \A id \in DOMAIN messages' :
          born'[id].moves >= 1 =>
             /\ CopiesIn(messages', born', born'[id].root, messages'[id].queue) = {id}
             /\ (sameNameToo \/ messages'[id].queue # born'[id].queue) =>
                   CopiesIn(messages', born', born'[id].root, born'[id].queue) = {}

C2_Original == [][C2_DlqExactlyOnce(TRUE)]_vars

\* C2 amended: the same, for a DLQ name D different from the original queue's
\* name; with D equal to it the copy is the one row of that queue.
C2_Amended == [][C2_DlqExactlyOnce(FALSE)]_vars

\* a copy in queue d of a message enqueued to q with max_retries = 2
C2_Witness ==
    \E id \in Ids :
        /\ born[id].moves = 1 /\ born[id].queue = "q"
        /\ messages[id].queue = "d" /\ messages[id].max_retries = 2

\* C3: a stored message with a DLQ configured has delivery_count <=
\* max_retries, and has been returned by Claim at most max_retries times.
C3_BoundedDeliveries ==
    \A id \in Ids :
        messages[id].dlq # NULL =>
            /\ messages[id].delivery_count <= messages[id].max_retries
            /\ claimCount[id] <= messages[id].max_retries

\* a message with a DLQ that has used up its two deliveries
C3_Witness ==
    \E id \in Ids :
        /\ messages[id].dlq # NULL
        /\ messages[id].max_retries = 2
        /\ messages[id].delivery_count = 2

\* C4: a message without dlq leaves the table only by an Ack; no step changes
\* anything of it but lease_until and delivery_count, delivery_count never
\* decreases, and a reclaim pass that finds its lease expired makes it
\* available, whatever its delivery_count.
C4_NoDlqInv ==
    \A id \in Ids :
        LET m == messages[id]
        IN m.dlq = NULL =>
             /\ id \in DOMAIN messages' \/ (id \in acked' /\ id \notin acked)
             /\ id \in DOMAIN messages' =>
                  /\ [messages'[id] EXCEPT !.lease_until = NULL, !.delivery_count = 0]
                       = [m EXCEPT !.lease_until = NULL, !.delivery_count = 0]
                  /\ messages'[id].delivery_count >= m.delivery_count
             /\ (RequeueStep /\ Expired(m, now)) =>
                  /\ messages'[id].lease_until = NULL
                  /\ messages'[id].not_before <= now

C4_NoDlqNeverLost == [][C4_NoDlqInv]_vars

\* a message without dlq, past its max_retries, available again
C4_Witness ==
    \E id \in Ids :
        /\ messages[id].dlq = NULL
        /\ messages[id].max_retries = 1
        /\ messages[id].delivery_count = 2
        /\ messages[id].lease_until = NULL

\* C5: under a running clock and sweeper, every leased message is eventually
\* acked, available again, or replaced by a copy in its DLQ.
C5_Leased(id) == id \in Ids /\ messages[id].lease_until # NULL

C5_Released(id) ==
    \/ id \in acked
    \/ id \in Ids /\ messages[id].lease_until = NULL
    \/ id \notin Ids /\ \E j \in Ids : born[j].root = id /\ born[j].moves = 1

C5_LeaseEnds == \A id \in 1..MaxId : C5_Leased(id) ~> C5_Released(id)

\* a leased message whose lease has run out at the last instant of the clock
C5_Witness ==
    \E id \in Ids : Expired(messages[id], now) /\ now = End /\ id \notin acked

\* C6: the reclaim pass clears lease_until of exactly the rows whose lease
\* expired and that are under their cap or have no dlq, and changes nothing
\* else; such a row is eligible for the next Claim, which returns a message
\* claimed once before with delivery_count = 2.
C6_ReclaimInv ==
    /\ RequeueStep =>
         /\ DOMAIN messages' = Ids
         /\ \A id \in Ids :
               LET m == messages[id]
               IN IF Expired(m, now) /\ (m.delivery_count < m.max_retries \/ m.dlq = NULL)
                  THEN /\ messages'[id] = [m EXCEPT !.lease_until = NULL]
                       /\ messages'[id].not_before <= now
                  ELSE messages'[id] = m
    /\ \A c \in Consumers :
          /\ BeginStep(c) =>
                \A id \in Ids :
                   (/\ claimCount[id] = 1
                    /\ messages[id].lease_until = NULL
                    /\ messages[id].queue = tx'[c].queue) => id \in tx'[c].cand
          /\ CommitStep(c) =>
                \A i \in 1..Len(tx'[c].out) :
                   claimCount[tx'[c].out[i].id] = 1 => tx'[c].out[i].delivery_count = 2

C6_ReclaimExact == [][C6_ReclaimInv]_vars

\* a Claim has returned, with delivery_count = 2, a message without dlq that
\* was claimed once and reclaimed
C6_Witness ==
    \E c \in Consumers :
        /\ tx[c].pc = "respond"
        /\ \E i \in 1..Len(tx[c].out) :
              tx[c].out[i].delivery_count = 2 /\ tx[c].out[i].dlq = NULL

\* C7: a Claim returns each message with delivery_count one greater than
\* before and lease_until = now() + visibility, as stored; and a stored
\* message's delivery_count is the number of Claims that returned it.
C7_ClaimInv ==
    /\ \A c \in Consumers :
          CommitStep(c) =>
             \A i \in 1..Len(tx'[c].out) :
                LET r == tx'[c].out[i]
                IN /\ r.id \in Ids
                   /\ r.delivery_count = messages[r.id].delivery_count + 1
                   /\ r.lease_until = Some(tx[c].start + tx[c].vis)
                   /\ messages'[r.id] = r
    /\ \A id \in DOMAIN messages' : messages'[id].delivery_count = claimCount'[id]

C7_ClaimEffect == [][C7_ClaimInv]_vars

\* one Claim has returned two messages
C7_Witness ==
    \E c \in Consumers : tx[c].pc = "respond" /\ Len(tx[c].out) = 2

\* C8: a Claim neither selects, locks nor returns a message whose lease_until
\* is set, expired or not.
C8_LeasedInv ==
    \A c \in Consumers :
        /\ BeginStep(c) => \A id \in tx'[c].cand : messages[id].lease_until = NULL
        /\ \A id \in tx'[c].picked \ tx[c].picked : messages[id].lease_until = NULL
        /\ CommitStep(c) =>
              \A i \in 1..Len(tx'[c].out) :
                 messages[tx'[c].out[i].id].lease_until = NULL

C8_LeasedHidden == [][C8_LeasedInv]_vars

\* a Claim is about to return without a message of its queue whose lease
\* expired before the Claim started and that no sweep has reclaimed
C8_Witness ==
    \E c \in Consumers, id \in Ids :
        /\ tx[c].pc = "pick" /\ tx[c].cand = {} /\ tx[c].picked = {}
        /\ messages[id].queue = tx[c].queue
        /\ Expired(messages[id], tx[c].start)

\* C9: a message enqueued with delay d is not returned by a Claim before
\* enqueued_at + d, and from then on every Claim on its queue has it among
\* its candidates while it is unleased.
C9_DelayInv ==
    \A c \in Consumers :
        /\ CommitStep(c) =>
              \A i \in 1..Len(tx'[c].out) :
                 LET r == tx'[c].out[i]
                 IN now >= r.enqueued_at + born[r.id].delay
        /\ BeginStep(c) =>
              \A id \in Ids :
                 (/\ messages[id].queue = tx'[c].queue
                  /\ messages[id].lease_until = NULL
                  /\ now >= messages[id].enqueued_at + born[id].delay) => id \in tx'[c].cand

C9_DelayHonoured == [][C9_DelayInv]_vars

\* a message enqueued with a delay has been returned by a Claim
C9_Witness ==
    \E c \in Consumers :
        /\ tx[c].pc = "respond"
        /\ \E i \in 1..Len(tx[c].out) :
              LET r == tx[c].out[i]
              IN r.id \in Ids /\ born[r.id].delay > 0 /\ born[r.id].moves = 0

\* C10: an acked id is no longer stored, no Claim returns it, and a Claim
\* returns only stored rows of its queue, so none when the queue has no row.
C10_AckInv ==
    /\ acked' \cap DOMAIN messages' = {}
    /\ \A c \in Consumers :
          CommitStep(c) =>
             /\ \A i \in 1..Len(tx'[c].out) :
                   /\ tx'[c].out[i].id \in Ids \ acked
                   /\ tx'[c].out[i].queue = tx[c].queue
             /\ {id \in Ids : messages[id].queue = tx[c].queue} = {} => tx'[c].out = << >>

C10_AckRemoves == [][C10_AckInv]_vars

\* the one message enqueued was acked and a later Claim returned nothing
C10_Witness ==
    /\ seq = 1 /\ acked = {1}
    /\ \E c \in Consumers : tx[c].pc = "respond" /\ tx[c].out = << >>

\* an Ack request with a well-formed id was served, and the id it named
AckServed == http'.ack # http.ack /\ http'.ack.status # 400
AckedId(exchange) == Val(ParseInt(Val(exchange.req)))

\* C11: the Ack of a stored id answers 200 {ok: true} and removes the row;
\* an Ack of an id acked before, in particular the next Ack of the same id,
\* answers 404, no storage error, and leaves the table as it was.
C11_AckTwiceInv ==
    AckServed =>
        LET id == AckedId(http'.ack)
        IN /\ id \in Ids =>
                 /\ http'.ack.status = 200 /\ http'.ack.body = Some([ok |-> TRUE])
                 /\ id \notin DOMAIN messages'
           /\ (id \in acked \/ (http.ack.req = http'.ack.req /\ http.ack.status = 200)) =>
                 /\ http'.ack.status = 404
                 /\ messages' = messages

C11_AckIdempotent == [][C11_AckTwiceInv]_vars

\* the last Ack named an id that an earlier Ack had removed, and got 404
C11_Witness ==
    /\ http.ack.status = 404
    /\ AckedId(http.ack) \in acked

\* C12: an Ack of a stored id removes exactly that row, whether the row is
\* available, leased or past its lease, and whichever consumer the lease
\* belongs to: the request carries the id only.
C12_AckAnyLeaseInv ==
    AckServed =>
        LET id == AckedId(http'.ack)
        IN id \in Ids =>
              /\ DOMAIN messages' = Ids \ {id}
              /\ \A j \in Ids \ {id} : messages'[j] = messages[j]
              /\ http'.ack.status = 200

C12_AckAnyLease == [][C12_AckAnyLeaseInv]_vars

\* a message was delivered a second time, and acked and removed while the
\* lease of that second delivery had not expired
C12_Witness ==
    \E c \in Consumers :
        /\ http.receive[c].status = 200
        /\ \E i \in 1..Len(Val(http.receive[c].body)) :
              LET r == Val(http.receive[c].body)[i]
              IN /\ r.delivery_count = 2
                 /\ Val(r.lease_until) > now
                 /\ r.id \in acked
                 /\ http.ack.req = Some(r.receipt) /\ http.ack.status = 200

\* C13: an Ack of an id that names no stored row (not yet assigned, acked, or
\* replaced by its DLQ copy) answers 404 and changes no row.
C13_AckUnknownInv ==
    AckServed =>
        LET id == AckedId(http'.ack)
        IN id \notin Ids =>
              /\ http'.ack.status = 404
              /\ http'.ack.body # Some([ok |-> TRUE])
              /\ messages' = messages /\ seq' = seq

C13_AckUnknown == [][C13_AckUnknownInv]_vars

\* the last Ack named the id of a message that a DLQ move had replaced by a
\* copy with a new id, and got 404; the copy is stored
C13_Witness ==
    /\ http.ack.status = 404
    /\ LET id == AckedId(http.ack)
       IN /\ id \notin Ids /\ id <= seq /\ id \notin acked
          /\ \E j \in Ids : born[j].root = id /\ born[j].moves = 1

\* the rows a DLQ pass at instant t must move
Quarantined(m, t) == Expired(m, t) /\ m.delivery_count >= m.max_retries /\ m.dlq # NULL

\* C14: a DLQ pass replaces each expired row at its cap by exactly one new
\* row, in the queue named by its dlq, with the same body, enqueued_at,
\* max_retries and trace_id, delivery_count 0, no lease and no dlq, and
\* inserts nothing else; the copy is a candidate of the next Claim on that
\* queue, and its first delivery carries delivery_count = 1.
C14_DlqMoveInv ==
    /\ DlqStep =>
         LET moved == {id \in Ids : Quarantined(messages[id], now)}
             made == DOMAIN messages' \ Ids
         IN /\ DOMAIN messages' \cap moved = {}
            /\ Cardinality(made) = Cardinality(moved)
            /\ \A id \in moved :
                  \E j \in made :
                     /\ \A k \in made : born'[k].root = born[id].root <=> k = j
                     /\ messages'[j].queue = Val(messages[id].dlq)
                     /\ messages'[j].body = messages[id].body
                     /\ messages'[j].enqueued_at = messages[id].enqueued_at
                     /\ messages'[j].max_retries = messages[id].max_retries
                     /\ messages'[j].trace_id = messages[id].trace_id
                     /\ messages'[j].delivery_count = 0
                     /\ messages'[j].lease_until = NULL
                     /\ messages'[j].dlq = NULL
    /\ \A c \in Consumers :
          /\ BeginStep(c) =>
                \A id \in Ids :
                   (/\ born[id].moves = 1 /\ claimCount[id] = 0
                    /\ messages[id].queue = tx'[c].queue) => id \in tx'[c].cand
          /\ CommitStep(c) =>
                \A i \in 1..Len(tx'[c].out) :
                   LET r == tx'[c].out[i]
                   IN (born[r.id].moves = 1 /\ claimCount[r.id] = 0) => r.delivery_count = 1

C14_DlqMove == [][C14_DlqMoveInv]_vars

\* a Claim on the queue named as DLQ has returned the copy, delivery_count 1
C14_Witness ==
    \E c \in Consumers :
        /\ tx[c].pc = "respond"
        /\ \E i \in 1..Len(tx[c].out) :
              LET r == tx[c].out[i]
              IN /\ r.id \in Ids /\ born[r.id].moves = 1
                 /\ r.delivery_count = 1 /\ r.dlq = NULL

\* C15: a message is moved to a DLQ at most once: a row made by a DLQ move
\* has no dlq, a DLQ pass leaves it as it is, and a reclaim pass that finds
\* its lease expired makes it available, whatever its delivery_count.
C15_NoChainInv ==
    /\ \A id \in Ids :
          /\ born[id].moves <= 1
          /\ born[id].moves = 1 =>
                /\ messages[id].dlq = NULL
                /\ DlqStep => (id \in DOMAIN messages' /\ messages'[id] = messages[id])
                /\ (RequeueStep /\ Expired(messages[id], now)) =>
                      messages'[id] = [messages[id] EXCEPT !.lease_until = NULL]
    /\ \A id \in DOMAIN messages' : born'[id].moves <= 1

C15_NoChain == [][C15_NoChainInv]_vars

\* a DLQ copy, delivered as often as max_retries allows and left unacked,
\* was reclaimed
C15_Witness ==
    \E id \in Ids :
        /\ born[id].moves = 1
        /\ messages[id].delivery_count >= messages[id].max_retries
        /\ messages[id].delivery_count >= 1
        /\ messages[id].lease_until = NULL

\* C16: the ids of the messages one Claim returns are strictly increasing.
C16_IdsIncreasing ==
    \A c \in Consumers :
        tx[c].pc = "respond" =>
            \A i, j \in 1..Len(tx[c].out) : i < j => tx[c].out[i].id < tx[c].out[j].id

\* the ids of the rows in a Claim's result
IdsOf(out) == {out[i].id : i \in 1..Len(out)}

\* C17: when two Claims on one queue overlap and nothing else runs, the one
\* that returns second returns no id of the other's result, and the two
\* results together hold min(N, L1 + L2) ids, N being the messages that were
\* available: those returned and those still available afterwards.
C17_PairInv ==
    \A c, d \in Consumers :
        (/\ c # d /\ CommitStep(c)
         /\ tx[d].pc = "respond") =>
            LET mine == IdsOf(tx'[c].out)
                theirs == IdsOf(tx[d].out)
                left == {id \in DOMAIN messages' :
                            /\ messages'[id].queue = tx[c].queue
                            /\ messages'[id].lease_until = NULL
                            /\ messages'[id].not_before <= tx[c].start}
                n == Cardinality(mine \cup theirs \cup left)
                l == tx[c].limit + tx[d].limit
            IN /\ mine \cap theirs = {}
               /\ Cardinality(mine \cup theirs) = IF n < l THEN n ELSE l

C17_ConcurrentDisjoint == [][C17_PairInv]_vars

\* two overlapping Claims with limit 1 each have returned one message each
C17_Witness ==
    \A c \in Consumers :
        /\ tx[c].pc = "respond" /\ Len(tx[c].out) = 1
        /\ tx[c].limit = 1

\* an enqueue request was accepted; what it asked and the id it was answered
EnqueueServed == http'.enqueue # http.enqueue /\ http'.enqueue.status = 201
Asked(exchange) == Val(exchange.req).json
Answered(exchange) == Val(exchange.body).id

\* C18: an accepted enqueue adds exactly one row, under an id no row had,
\* with the request's queue, body, dlq and trace_id, enqueued_at = now,
\* not_before = now + delay, no lease and delivery_count 0, leaves every
\* other row as it was, and answers with that id.
C18_EnqueueInv ==
    EnqueueServed =>
        LET id == Answered(http'.enqueue)
            req == Asked(http'.enqueue)
        IN /\ id \notin Ids /\ id > seq
           /\ DOMAIN messages' = Ids \cup {id}
           /\ \A j \in Ids : messages'[j] = messages[j]
           /\ messages'[id].id = id
           /\ messages'[id].queue = Val(http'.enqueue.req).queue
           /\ messages'[id].body = Jsonb(req.body)
           /\ messages'[id].dlq = req.dlq
           /\ messages'[id].trace_id = req.trace_id
           /\ messages'[id].enqueued_at = now
           /\ messages'[id].not_before = now + req.delay * Millisecond
           /\ messages'[id].lease_until = NULL
           /\ messages'[id].delivery_count = 0

C18_EnqueueEffect == [][C18_EnqueueInv]_vars

\* the last enqueue carried a delay and was answered with the id of a
\* stored row that is not yet claimable
C18_Witness ==
    /\ http.enqueue.status = 201
    /\ Asked(http.enqueue).delay > 0
    /\ Answered(http.enqueue) \in Ids
    /\ messages[Answered(http.enqueue)].not_before > now

\* C19: a message enqueued with max_retries 0 (or left out, which decodes
\* to 0) is stored with max_retries = 5, and one enqueued with n > 0 with n.
C19_MaxRetriesInv ==
    EnqueueServed =>
        LET n == Asked(http'.enqueue).max_retries
            stored == messages'[Answered(http'.enqueue)].max_retries
        IN /\ n = 0 => stored = 5
           /\ n > 0 => stored = n

C19_MaxRetriesDefault == [][C19_MaxRetriesInv]_vars

\* the last enqueue left max_retries out and its row is stored with 5
C19_Witness ==
    /\ http.enqueue.status = 201
    /\ Asked(http.enqueue).max_retries = 0
    /\ Answered(http.enqueue) \in Ids
    /\ messages[Answered(http.enqueue)].max_retries = 5

\* the limit a receive request is to be served with
Served(max) == IF max >= 1 /\ max <= 32 THEN max ELSE 1

C21_BodyInv ==
    (http'.enqueue # http.enqueue /\ Asked(http'.enqueue).body \in {<< >>, NullBody}) =>
        /\ http'.enqueue.status = 400
        /\ messages' = messages
        /\ seq' = seq

C21_BodyRequired == [][C21_BodyInv]_vars

\* a request with the literal null as body was refused while a message was stored
C21_Witness ==
    /\ http.enqueue.status = 400
    /\ Asked(http.enqueue).body = NullBody
    /\ Ids # {}

\* C22: every stored message has not_before >= enqueued_at, whatever delay
\* the accepted enqueue request carried, and also when a DLQ move made the row.
C22_NotBeforeAfterEnqueue ==
    \A id \in Ids : messages[id].not_before >= messages[id].enqueued_at

\* C23: every stored message has a non-empty queue name, the rows that a DLQ
\* move files under the producer's dlq value included.
C23_QueueNamed ==
    \A id \in Ids : messages[id].queue # ""

\* the loop comes back from a store sweep that failed
SweepFailed == sweeper.pc = "sweep" /\ sweeper'.pc = "select" /\ sweeper'.failed

\* C24: when a sweep fails, the failure is logged, sqs_sweeper_errors_total
\* goes up by one, the loop keeps running, and the next tick starts a sweep again.
C24_FailInv ==
    SweepFailed =>
        /\ sweeper'.failed
        /\ metrics'.sweeperErrors = metrics.sweeperErrors + 1
        /\ sweeper'.pc = "select"
        /\ sweeper'.stopCh = sweeper.stopCh

C24_SweepFailureCounted == [][C24_FailInv]_vars

\* C25: a Sweeper has at most one store sweep in flight and at most one tick
\* waiting: a tick that fires during a sweep starts no second sweep, and
\* the ticks of a long sweep leave one tick behind, not a queue of them.
C25_TickInv ==
    (sweeper.pc = "sweep" /\ sweeper'.ticks # sweeper.ticks) =>
        /\ sweeper'.pc = "sweep"
        /\ sweeper'.sweeps = sweeper.sweeps
        /\ sweeper'.ticks = 1

C25_OneSweepAtATime ==
    /\ [](sweeper.sweeps <= 1 /\ sweeper.ticks <= 1)
    /\ [][C25_TickInv]_vars

\* a tick is waiting while the sweep it fired in is between its two passes
C25_Witness ==
    /\ sweeper.pc = "sweep"
    /\ sweeper.sweeps = 1
    /\ sweeper.ticks = 1
    /\ swPc = "dlq"

\* shutdown has been signalled to the sweeper
Signalled == proc.ctx = "cancelled" \/ sweeper.stopCh = "closed"

\* C26: once the context is cancelled or Stop has been called, the loop
\* starts no store sweep (a waiting tick is not served) and a sweep between
\* its passes does not run the DLQ pass.
C26_StopInv ==
    Signalled =>
        /\ ~(sweeper.pc = "select" /\ sweeper'.pc = "sweep")
        /\ ~(sweeper.pc = "sweep" /\ DlqStep /\ ~sweeper'.failed)

C26_NoSweepAfterSignal == [][C26_StopInv]_vars

\* C27: after the context is cancelled or Stop is called, Start returns in
\* the end, given that a store sweep in flight returns.
C27_StartReturns == Signalled ~> sweeper.pc = "returned"

\* Start has returned on Stop alone, after a sweep
C27_Witness ==
    /\ sweeper.pc = "returned"
    /\ sweeper.stopCh = "closed"
    /\ proc.ctx = "live"
    /\ metrics.dlqd > 0

\* C28: the pool is closed only after the HTTP server has shut down and the
\* sweeper loop has stopped, so neither a sweep nor a handler meets a closed pool.
C28_PoolClosedLast ==
    proc.pool = "closed" =>
        /\ proc.server = "closed"
        /\ \A c \in Consumers : tx[c].pc = "idle"
        /\ sweeper.pc = "returned"

\* the value of a labelled counter: zero for a label it was never used with
CounterValue(vec, label) == IF label \in DOMAIN vec THEN vec[label] ELSE 0

ReceiveServed(c) == http'.receive[c] # http.receive[c] /\ http'.receive[c].status = 200

\* C29: sqs_messages_enqueued_total{queue} counts the successful enqueues to
\* the queue, sqs_messages_received_total{queue} the messages that receives on
\* the queue returned, and sqs_messages_acked_total the successful acks: each
\* counter moves with its event, by the event's size, and at no other time.
C29_CountInv ==
    /\ IF EnqueueServed
       THEN LET q == Val(http'.enqueue.req).queue
            IN  /\ CounterValue(metrics'.enqueued, q) = CounterValue(metrics.enqueued, q) + 1
                /\ \A p \in Queues \ {q} :
                       CounterValue(metrics'.enqueued, p) = CounterValue(metrics.enqueued, p)
       ELSE metrics'.enqueued = metrics.enqueued
    /\ \A q \in Queues :
          CounterValue(metrics'.received, q) =
              CounterValue(metrics.received, q)
              + (IF \E c \in Consumers : ReceiveServed(c) /\ Val(http'.receive[c].req).queue = q
                 THEN LET c == CHOOSE c \in Consumers :
                                   ReceiveServed(c) /\ Val(http'.receive[c].req).queue = q
                      IN  Len(Val(http'.receive[c].body))
                 ELSE 0)
    /\ metrics'.acked = metrics.acked + (IF AckServed /\ http'.ack.status = 200 THEN 1 ELSE 0)

C29_MetricsCount == [][C29_CountInv]_vars

\* the worker is done with the first message of its batch
WorkerLeaves == Len(worker'.batch) < Len(worker.batch)

\* C30: the worker acks a received message if and only if its handler
\* returned nil: after nil the worker's next move is the ack of that message;
\* after an error or a panic the message is dropped from the batch with no
\* ack sent and its row left as it is; and after a panic the polling loop
\* is still running.
C30_WorkerInv ==
    /\ http'.ack # http.ack =>
          /\ worker.pc = "ack"
          /\ worker.outcome = "nil"
          /\ http'.ack.req = Some(FormatInt(Head(worker.batch).id))
    /\ WorkerLeaves =>
          IF worker'.outcome = "nil"
          THEN /\ worker.pc = "ack"
               /\ http'.ack # http.ack
               /\ http'.ack.req = Some(FormatInt(Head(worker.batch).id))
          ELSE /\ worker.pc = "handle"
               /\ http'.ack = http.ack
               /\ messages' = messages
    /\ (worker.pc = "handle" /\ worker' # worker) =>
          /\ worker'.outcome = "nil" <=> worker'.pc = "ack"
          /\ worker'.outcome = "nil" => worker'.batch = worker.batch
          /\ worker'.pc \in {"ack", "handle", "poll"}

C30_AckIffNil == [][C30_WorkerInv]_vars

\* one message of a batch was acked after its handler returned nil, the
\* handler of the other has panicked: that message is still stored and the
\* worker is back at its select
C30_Witness ==
    /\ acked # {}
    /\ http.ack.status = 200
    /\ worker.outcome = "panic"
    /\ worker.pc = "poll"
    /\ \E id \in Ids : messages[id].lease_until # NULL

\* C31: a message comes back from a receive with the body it was enqueued
\* with, byte for byte, also when a DLQ move has copied it in between.
C31_RoundTripInv ==
    \A c \in Consumers :
        ReceiveServed(c) =>
            \A i \in 1..Len(Val(http'.receive[c].body)) :
                LET r == Val(http'.receive[c].body)[i]
                IN  r.id \in DOMAIN born => r.body = born[r.id].body

C31_BodyRoundTrip == [][C31_RoundTripInv]_vars

\* the seconds a variable is set to, if it is set to a decimal number
SecondsOf(env, name) ==
    IF env[name] # NULL /\ ParseInt(Val(env[name])) # NULL
    THEN {Val(ParseInt(Val(env[name])))}
    ELSE {}

\* C32: with SWEEPER_INTERVAL or SWEEP_INTERVAL set to n, the loaded sweep
\* interval is n seconds; it is 60 seconds only when neither is set.
C32_SweepIntervalFromEnv ==
    (config.cfg # NULL /\ ~Val(config.cfg).error) =>
        LET interval == Val(config.cfg).cfg.SweepInterval
            asked == SecondsOf(config.env, "SWEEPER_INTERVAL")
                     \cup SecondsOf(config.env, "SWEEP_INTERVAL")
        IN  /\ asked # {} => \E n \in asked : interval = n * Second
            /\ (config.env["SWEEPER_INTERVAL"] = NULL /\ config.env["SWEEP_INTERVAL"] = NULL)
                  => interval = 60 * Second

\* rows the call of store.Sweeper that returns in this step has changed: the
\* rows its first statement reclaimed and the rows this step moves to a DLQ
SweepChanged == sweeper.totalProcessed + (seq' - seq)

\* C33: the count store.Sweeper returns is the number of rows the call
\* reclaimed plus the number it moved to a DLQ, also when one of the two
\* statements fails after the other has taken effect.
C33_CountInv ==
    (sweeper.pc = "sweep" /\ sweeper'.pc = "select") => sweeper'.count = SweepChanged

C33_SweepCountsChanges == [][C33_CountInv]_vars

\* the stores the two statements can leave, run from the current state in
\* either order
RequeueThenDlq ==
    LET reclaimed == RequeuePass(messages, LockedRows, now)
    IN  {DlqPass(reclaimed, src, now) : src \in DlqSources(reclaimed, seq, LockedRows, now)}

DlqThenRequeue ==
    {RequeuePass(DlqPass(messages, src, now), LockedRows, now) :
        src \in DlqSources(messages, seq, LockedRows, now)}

\* C34: the reclaim pass and the DLQ pass select disjoint sets of rows, and
\* running the two passes in either order from one state gives the same store.
C34_PassesDisjoint ==
    /\ RequeueSet \cap DlqSet = {}
    /\ RequeueThenDlq = DlqThenRequeue

\* both passes have rows to act on
C34_Witness == RequeueSet # {} /\ DlqSet # {}

\* the stores both statements of a sweep can leave of a table, with the
\* value of the sequence
SweepOf(msgs, sq) ==
    LET reclaimed == RequeuePass(msgs, LockedRows, now)
    IN  {[messages |-> DlqPass(reclaimed, src, now), seq |-> sq + Cardinality(DOMAIN src)] :
            src \in DlqSources(reclaimed, sq, LockedRows, now)}

EnqueueOf(st, k) ==
    [messages |-> EnqueuePass(st.messages, st.seq + 1, "d", PlainBody, k.delay,
                              k.max_retries, k.dlq, NULL, now),
     seq |-> st.seq + 1]

\* a table as the bag of its rows without their ids
Unnumbered(msgs) ==
    LET strip(m) == [m EXCEPT !.id = 0]
        rows == {strip(msgs[id]) : id \in DOMAIN msgs}
    IN  [r \in rows |-> Cardinality({id \in DOMAIN msgs : strip(msgs[id]) = r})]

\* an Enqueue before the sweep and the same Enqueue after it
EnqueueThenSweep(k) == SweepOf(EnqueueOf([messages |-> messages, seq |-> seq], k).messages, seq + 1)
SweepThenEnqueue(k) == {EnqueueOf(st, k) : st \in SweepOf(messages, seq)}

\* a statement of the sweep leaves the rows without a lease and the rows
\* whose lease has not expired as they are
C35_Frame ==
    (swPc' # swPc) =>
        \A id \in Ids :
            (messages[id].lease_until = NULL \/ Val(messages[id].lease_until) >= now)
                => id \in DOMAIN messages' /\ messages'[id] = messages[id]

C35_Commutes(sameIds) ==
    \A k \in PassKinds :
        IF sameIds
        THEN EnqueueThenSweep(k) = SweepThenEnqueue(k)
        ELSE /\ {Unnumbered(st.messages) : st \in EnqueueThenSweep(k)}
                  = {Unnumbered(st.messages) : st \in SweepThenEnqueue(k)}
             /\ {st.seq : st \in EnqueueThenSweep(k)} = {st.seq : st \in SweepThenEnqueue(k)}
             /\ DlqRows(RequeuePass(messages, LockedRows, now), LockedRows, now) = {}
                  => EnqueueThenSweep(k) = SweepThenEnqueue(k)

\* C35 as stated: a sweep leaves available and unexpired messages unchanged,
\* and a sweep and an Enqueue leave the same store in either order.
C35_Original == [][C35_Frame /\ C35_Commutes(TRUE)]_vars

\* C35: a sweep leaves unchanged every message without a lease and every
\* message whose lease has not expired, and a sweep and an Enqueue leave the
\* same rows in either order, up to the ids the sequence hands out (the same
\* store when the sweep moves nothing to a DLQ).
C35_Amended == [][C35_Frame /\ C35_Commutes(FALSE)]_vars

\* a sweep has changed rows of a table that holds an unexpired lease
C35_Witness ==
    /\ metrics.requeued + metrics.dlqd > 0
    /\ \E id \in Ids :
          messages[id].lease_until # NULL /\ Val(messages[id].lease_until) >= now

\* a message of queue q that a Claim started at time t may take
AvailableIn(m, q, t) == m.queue = q /\ m.lease_until = NULL /\ m.not_before <= t

\* C36: a Claim that runs with no other Claim returns exactly the
\* min(limit, n) smallest-id messages among the n available messages of its
\* queue (those it takes and those of its candidates it leaves available),
\* and neither returns nor modifies any other message.
C36_ClaimInv ==
    \A c \in Consumers :
        (CommitStep(c) /\ \A d \in Consumers \ {c} : tx[d].pc # "pick") =>
            LET taken == tx[c].picked
                left == {id \in tx[c].cand \cap Ids :
                            AvailableIn(messages[id], tx[c].queue, tx[c].start)}
                n == Cardinality(taken \cup left)
            IN  /\ IdsOf(tx'[c].out) = taken
                /\ Len(tx'[c].out) = Cardinality(taken)
                /\ Cardinality(taken) = IF n < tx[c].limit THEN n ELSE tx[c].limit
                /\ \A id \in taken : AvailableIn(messages[id], tx[c].queue, tx[c].start)
                /\ \A id \in taken, other \in left : id < other
                /\ DOMAIN messages' = Ids
                /\ \A id \in Ids \ taken : messages'[id] = messages[id]

C36_ClaimSmallest == [][C36_ClaimInv]_vars

\* a Claim with limit 1 has returned the smaller of two available messages
\* of its queue, and the other one is still available
C36_Witness ==
    \E c \in Consumers, id \in Ids :
        /\ tx[c].pc = "respond" /\ tx[c].limit = 1 /\ Len(tx[c].out) = 1
        /\ tx[c].out[1].id < id
        /\ AvailableIn(messages[id], tx[c].out[1].queue, now)

\* Enqueues that succeeded: the ids handed out but for those of DLQ copies
Enqueued(sq, m) == sq - m.dlqd

\* C37: the number of stored rows is the number of successful Enqueues minus
\* the number of Acks that returned true; a Claim and a statement of the
\* sweep leave the number of rows as it is.
C37_RowsInv ==
    /\ Cardinality(DOMAIN messages') = Enqueued(seq', metrics') - Cardinality(acked')
    /\ (tx' # tx \/ swPc' # swPc) => Cardinality(DOMAIN messages') = Cardinality(Ids)

C37_Conservation == [][C37_RowsInv]_vars

\* a message was moved to a DLQ and its copy acked
C37_Witness == metrics.dlqd > 0 /\ acked # {}

\* C38: every id assigned by Enqueue or by a DLQ move is greater than every
\* id assigned before it, so no id is used twice; a row moved to a DLQ
\* carries a new id, and an Ack with the id it had before removes no row.
C38_IdsInv ==
    /\ seq' >= seq
    /\ \A id \in Ids : id <= seq
    /\ \A id \in DOMAIN messages' \ Ids : id > seq /\ id <= seq' /\ id \notin acked
    /\ \A id \in DOMAIN messages' :
          /\ messages'[id].id = id
          /\ born'[id].moves > 0 =>
                /\ id > born'[id].root
                /\ born'[id].root \notin DOMAIN messages'
    /\ \A id \in (1..seq) \ Ids : ~AckDeletes(id)
    /\ \A id \in acked' \ acked : DOMAIN messages' = Ids \ {id}

C38_IdsNeverReused == [][C38_IdsInv]_vars

\* a row sits in a DLQ under a new id, and the id it was enqueued under is
\* that of no row
C38_Witness ==
    \E id \in Ids :
        /\ born[id].moves > 0
        /\ born[id].root < id
        /\ ~AckDeletes(born[id].root)

\* C39: Sweeper.Stop may be called in any state and any number of times,
\* before Start, after Start has returned or twice in a row, without a fault.
C39_StopNeverFaults == ~proc.panicked

\* the worker sends the ack of the first message of its batch
WorkerAcks == worker.pc = "ack" /\ worker'.pc # "ack"

\* C40: the Worker SDK sends the Ack of a message only while the lease it
\* obtained for it is unexpired, for every message of a batch, and the Ack
\* deletes no row that has been reclaimed since.
C40_AckInv ==
    WorkerAcks =>
        LET m == Head(worker.batch)
        IN  /\ m.lease_until # NULL
            /\ Val(m.lease_until) >= now
            /\ m.id \in Ids /\ m.id \notin DOMAIN messages'
                  => messages[m.id].lease_until = m.lease_until

C40_AckWithinLease == [][C40_AckInv]_vars

====
